---- MODULE Spec2Model ----
(***************************************************************************)
(* Model of httpie_oauth2_client_credentials.py: the OAuth2 client         *)
(* credentials auth plugin for HTTPie.                                     *)
(*                                                                         *)
(* A Python str is modelled as a sequence of one-character strings over    *)
(* printable ASCII, so that b64encode, urlencode, json.dumps and           *)
(* json.loads are computed character by character, as the library does.    *)
(* A Python dict is a sequence of <<key, value>> pairs in insertion order. *)
(***************************************************************************)
EXTENDS Integers, Sequences, FiniteSets, TLC

(***************************************************************************)
(* Characters and strings                                                  *)
(***************************************************************************)

\* Printable ASCII, code points 32..126, in order.  Code point 96 (the grave
\* accent) cannot be written as a TLA+ string; its place is held by "GRAVE",
\* which is no character, and no input contains it.
Ascii ==
    << " ", "!", "\"", "#", "$", "%", "&", "'", "(", ")", "*", "+", ",", "-", ".", "/",
       "0", "1", "2", "3", "4", "5", "6", "7", "8", "9", ":", ";", "<", "=", ">", "?",
       "@", "A", "B", "C", "D", "E", "F", "G", "H", "I", "J", "K", "L", "M", "N", "O",
       "P", "Q", "R", "S", "T", "U", "V", "W", "X", "Y", "Z", "[", "\\", "]", "^", "_",
       "GRAVE", "a", "b", "c", "d", "e", "f", "g", "h", "i", "j", "k", "l", "m", "n", "o",
       "p", "q", "r", "s", "t", "u", "v", "w", "x", "y", "z", "{", "|", "}", "~" >>

Range(s) == { s[i] : i \in 1..Len(s) }

\* The code point of a character.
OrdTable == [c \in Range(Ascii) |-> 31 + (CHOOSE i \in 1..Len(Ascii) : Ascii[i] = c)]

Ord(c) == OrdTable[c]

Chr(n) == Ascii[n - 31]

Letters == { Ascii[i] : i \in (34..59) \cup (66..91) }

Digits == { Ascii[i] : i \in 17..26 }

HexDigits == << "0", "1", "2", "3", "4", "5", "6", "7", "8", "9", "A", "B", "C", "D", "E", "F" >>

RECURSIVE Concat(_)
Concat(ss) ==
    IF Len(ss) = 0 THEN << >> ELSE Head(ss) \o Concat(Tail(ss))

RECURSIVE Join(_, _)
Join(sep, ss) ==
    IF Len(ss) = 0 THEN << >>
    ELSE IF Len(ss) = 1 THEN ss[1]
    ELSE ss[1] \o sep \o Join(sep, Tail(ss))

\* The string literals of the source.
S_ContentType == << "C", "o", "n", "t", "e", "n", "t", "-", "T", "y", "p", "e" >>

S_Authorization == << "A", "u", "t", "h", "o", "r", "i", "z", "a", "t", "i", "o", "n" >>

S_FormUrlencoded ==
    << "a", "p", "p", "l", "i", "c", "a", "t", "i", "o", "n", "/", "x", "-", "w", "w", "w", "-",
       "f", "o", "r", "m", "-", "u", "r", "l", "e", "n", "c", "o", "d", "e", "d" >>

S_ApplicationJson ==
    << "a", "p", "p", "l", "i", "c", "a", "t", "i", "o", "n", "/", "j", "s", "o", "n" >>

S_grant_type == << "g", "r", "a", "n", "t", "_", "t", "y", "p", "e" >>

S_client_credentials ==
    << "c", "l", "i", "e", "n", "t", "_", "c", "r", "e", "d", "e", "n", "t", "i", "a", "l", "s" >>

S_scope == << "s", "c", "o", "p", "e" >>

S_client_id == << "c", "l", "i", "e", "n", "t", "_", "i", "d" >>

S_client_secret ==
    << "c", "l", "i", "e", "n", "t", "_", "s", "e", "c", "r", "e", "t" >>

S_Basic == << "B", "a", "s", "i", "c", " " >>

S_Bearer == << "B", "e", "a", "r", "e", "r" >>

S_token_type == << "t", "o", "k", "e", "n", "_", "t", "y", "p", "e" >>

S_access_token == << "a", "c", "c", "e", "s", "s", "_", "t", "o", "k", "e", "n" >>

(***************************************************************************)
(* Library functions the plugin calls, computed as the library does        *)
(***************************************************************************)

\* base64.b64encode over the bytes of an ASCII string (its UTF-8 encoding).
B64Alphabet ==
    << "A", "B", "C", "D", "E", "F", "G", "H", "I", "J", "K", "L", "M", "N", "O", "P",
       "Q", "R", "S", "T", "U", "V", "W", "X", "Y", "Z", "a", "b", "c", "d", "e", "f",
       "g", "h", "i", "j", "k", "l", "m", "n", "o", "p", "q", "r", "s", "t", "u", "v",
       "w", "x", "y", "z", "0", "1", "2", "3", "4", "5", "6", "7", "8", "9", "+", "/" >>

RECURSIVE b64encode(_)
b64encode(s) ==
    IF Len(s) = 0 THEN << >>
    ELSE IF Len(s) = 1 THEN
        LET n == Ord(s[1]) * 65536
        IN  << B64Alphabet[(n \div 262144) + 1],
               B64Alphabet[((n \div 4096) % 64) + 1], "=", "=" >>
    ELSE IF Len(s) = 2 THEN
        LET n == Ord(s[1]) * 65536 + Ord(s[2]) * 256
        IN  << B64Alphabet[(n \div 262144) + 1],
               B64Alphabet[((n \div 4096) % 64) + 1],
               B64Alphabet[((n \div 64) % 64) + 1], "=" >>
    ELSE
        LET n == Ord(s[1]) * 65536 + Ord(s[2]) * 256 + Ord(s[3])
        IN  << B64Alphabet[(n \div 262144) + 1],
               B64Alphabet[((n \div 4096) % 64) + 1],
               B64Alphabet[((n \div 64) % 64) + 1],
               B64Alphabet[(n % 64) + 1] >>
            \o b64encode(SubSeq(s, 4, Len(s)))

\* urllib.parse.quote_plus with safe='': unreserved characters are kept, a
\* space becomes "+", every other byte becomes %XX in upper-case hex.
AlwaysSafe == Letters \cup Digits \cup { "_", ".", "-", "~" }

QuoteChar(c) ==
    IF c \in AlwaysSafe THEN << c >>
    ELSE IF c = " " THEN << "+" >>
    ELSE << "%", HexDigits[(Ord(c) \div 16) + 1], HexDigits[(Ord(c) % 16) + 1] >>

quote_plus(s) == Concat([i \in 1..Len(s) |-> QuoteChar(s[i])])

\* urllib.parse.urlencode of a dict of str: k=v joined by "&".
urlencode(params) ==
    Join(<< "&" >>,
         [i \in 1..Len(params) |->
              quote_plus(params[i][1]) \o << "=" >> \o quote_plus(params[i][2])])

\* json.dumps of a str (ensure_ascii): the quote and the backslash are escaped.
JsonEscapeChar(c) ==
    IF c = "\"" THEN << "\\", "\"" >>
    ELSE IF c = "\\" THEN << "\\", "\\" >>
    ELSE << c >>

JsonString(s) ==
    << "\"" >> \o Concat([i \in 1..Len(s) |-> JsonEscapeChar(s[i])]) \o << "\"" >>

\* json.dumps of a dict of str with the default separators ", " and ": ".
json_dumps(params) ==
    << "{" >>
    \o Join(<< ",", " " >>,
            [i \in 1..Len(params) |->
                 JsonString(params[i][1]) \o << ":", " " >> \o JsonString(params[i][2])])
    \o << "}" >>

\* A dict assignment d[k] = v: an existing key keeps its place.
DictSet(d, k, v) ==
    IF \E i \in 1..Len(d) : d[i][1] = k
    THEN [i \in 1..Len(d) |-> IF d[i][1] = k THEN << k, v >> ELSE d[i]]
    ELSE Append(d, << k, v >>)

DictHas(d, k) == \E i \in 1..Len(d) : d[i][1] = k

\* dict.get(k, default)
DictGet(d, k, default) ==
    IF DictHas(d, k) THEN d[CHOOSE i \in 1..Len(d) : d[i][1] = k][2] ELSE default

\* json.loads, for the JSON texts the model meets: an object whose values are
\* strings, or a string, with optional spaces around the tokens and the
\* escapes \" \\ \/.  The result is [ok, kind, value]: kind "dict" with the
\* pairs, kind "str" with the text; ok = FALSE is json.JSONDecodeError.
JsonFail == [ok |-> FALSE, val |-> << >>, next |-> 0]

RECURSIVE SkipWs(_, _)
SkipWs(s, i) ==
    IF i <= Len(s) /\ s[i] = " " THEN SkipWs(s, i + 1) ELSE i

RECURSIVE ScanString(_, _, _)
ScanString(s, i, acc) ==
    IF i > Len(s) THEN JsonFail
    ELSE IF s[i] = "\"" THEN [ok |-> TRUE, val |-> acc, next |-> i + 1]
    ELSE IF s[i] = "\\" THEN
        IF i + 1 <= Len(s) /\ s[i + 1] \in { "\"", "\\", "/" }
        THEN ScanString(s, i + 2, Append(acc, s[i + 1]))
        ELSE JsonFail
    ELSE ScanString(s, i + 1, Append(acc, s[i]))

ParseString(s, i) ==
    IF i <= Len(s) /\ s[i] = "\"" THEN ScanString(s, i + 1, << >>) ELSE JsonFail

RECURSIVE ParseMembers(_, _, _)
ParseMembers(s, i, acc) ==
    LET k == ParseString(s, i)
        c == SkipWs(s, k.next)
        v == ParseString(s, SkipWs(s, c + 1))
        e == SkipWs(s, v.next)
    IN  IF ~k.ok \/ c > Len(s) \/ s[c] # ":" THEN JsonFail
        ELSE IF ~v.ok \/ e > Len(s) THEN JsonFail
        ELSE IF s[e] = "}"
             THEN [ok |-> TRUE, val |-> DictSet(acc, k.val, v.val), next |-> e + 1]
        ELSE IF s[e] = ","
             THEN ParseMembers(s, SkipWs(s, e + 1), DictSet(acc, k.val, v.val))
        ELSE JsonFail

ParseObject(s, i) ==
    LET j == SkipWs(s, i + 1)
    IN  IF j > Len(s) THEN JsonFail
        ELSE IF s[j] = "}" THEN [ok |-> TRUE, val |-> << >>, next |-> j + 1]
        ELSE ParseMembers(s, j, << >>)

json_loads(s) ==
    LET i == SkipWs(s, 1)
        isDict == i <= Len(s) /\ s[i] = "{"
        r == IF isDict THEN ParseObject(s, i) ELSE ParseString(s, i)
    IN  IF r.ok /\ SkipWs(s, r.next) > Len(s)
        THEN [ok |-> TRUE, kind |-> IF isDict THEN "dict" ELSE "str", value |-> r.val]
        ELSE [ok |-> FALSE, kind |-> "none", value |-> << >>]

(***************************************************************************)
(* Values                                                                  *)
(***************************************************************************)

\* Python's None, kept apart from every str (no str holds a "None" element).
None == << "None" >>

\* Truth value of a None-or-str, as `not x` tests it.
Truthy(v) == v # None /\ v # << >>

\* An exception object.  status and fp are those of urllib.error.HTTPError:
\* fp is the part of the response body that e.read() has not consumed yet.
Exc(type, msg) == [type |-> type, msg |-> msg, status |-> 0, fp |-> << >>]

NoExc == Exc("none", "")

HTTPErrorOf(status, fp) == [type |-> "HTTPError", msg |-> "", status |-> status, fp |-> fp]

NoSelf ==
    [client_id |-> None, client_secret |-> None, token_endpoint |-> None,
     token_request_type |-> "none", scope |-> None, print_token_response |-> FALSE]

NoJson == [ok |-> FALSE, kind |-> "none", value |-> << >>]

(***************************************************************************)
(* Inputs                                                                  *)
(***************************************************************************)

\* The concrete strings the inputs are drawn from (each is the Python str
\* written in the comment above it).
\* id
ID1 ==
    << "i", "d" >>

\* a b
ID2 ==
    << "a", " ", "b" >>

\* s
SECRET1 ==
    << "s" >>

\* p&="\
SECRET2 ==
    << "p", "&", "=", "\"", "\\" >>

\* https://as/token
URL1 ==
    << "h", "t", "t", "p", "s", ":", "/", "/", "a", "s", "/", "t", "o", "k", "e", "n" >>

\* r w
SCOPE1 ==
    << "r", " ", "w" >>

\* Accept
ACCEPT_K ==
    << "A", "c", "c", "e", "p", "t" >>

\* */*
ACCEPT_V ==
    << "*", "/", "*" >>

\* Basic b2xk
OLD_AUTH ==
    << "B", "a", "s", "i", "c", " ", "b", "2", "x", "k" >>

\* {"access_token": "abc123", "token_type": "Bearer"}
BODY_FULL ==
    << "{", "\"", "a", "c", "c", "e", "s", "s", "_", "t", "o", "k", "e", "n", "\"", ":", " ",
       "\"", "a", "b", "c", "1", "2", "3", "\"", ",", " ", "\"", "t", "o", "k", "e", "n", "_",
       "t", "y", "p", "e", "\"", ":", " ", "\"", "B", "e", "a", "r", "e", "r", "\"", "}" >>

\* {"access_token":"xyz"}
BODY_NO_TYPE ==
    << "{", "\"", "a", "c", "c", "e", "s", "s", "_", "t", "o", "k", "e", "n", "\"", ":", "\"",
       "x", "y", "z", "\"", "}" >>

\* {"token_type": "MAC"}
BODY_NO_TOKEN ==
    << "{", "\"", "t", "o", "k", "e", "n", "_", "t", "y", "p", "e", "\"", ":", " ", "\"", "M",
       "A", "C", "\"", "}" >>

\* {"access_token": "", "token_type": "Bearer"}
BODY_EMPTY_TOKEN ==
    << "{", "\"", "a", "c", "c", "e", "s", "s", "_", "t", "o", "k", "e", "n", "\"", ":", " ",
       "\"", "\"", ",", " ", "\"", "t", "o", "k", "e", "n", "_", "t", "y", "p", "e", "\"", ":",
       " ", "\"", "B", "e", "a", "r", "e", "r", "\"", "}" >>

\* internal error
BODY_TEXT ==
    << "i", "n", "t", "e", "r", "n", "a", "l", " ", "e", "r", "r", "o", "r" >>

\* "ok"
BODY_JSON_STR ==
    << "\"", "o", "k", "\"" >>

\* {"error":"invalid_client"}
BODY_ERR_JSON ==
    << "{", "\"", "e", "r", "r", "o", "r", "\"", ":", "\"", "i", "n", "v", "a", "l", "i", "d",
       "_", "c", "l", "i", "e", "n", "t", "\"", "}" >>

\* The username and password HTTPie hands to get_auth.
Usernames == { None, << >>, ID1, ID2 }

Passwords == { None, << >>, SECRET1, SECRET2 }

\* The values httpie_args_parser.args can hold.  --token-request-type is
\* declared with choices basic, form, json; "xml" stands for any other value
\* the attribute is given, the case __get_token's last else branch is for.
TokenEndpoints == { None, << >>, URL1 }

TokenRequestTypes == { "basic", "form", "json", "xml" }

Scopes == { None, << >>, SCOPE1 }

ArgsSet ==
    [token_endpoint : TokenEndpoints, token_request_type : TokenRequestTypes,
     scope : Scopes, print_token_response : BOOLEAN]

\* The headers of the outgoing request handed to __call__: without, and with,
\* an Authorization header set earlier.
H_Accept == << ACCEPT_K, ACCEPT_V >>

OutgoingHeaders == { << H_Accept >>, << H_Accept, << S_Authorization, OLD_AUTH >> >> }

\* What the token endpoint answers: an HTTP response (status, body), or no
\* response at all (kind "transport": connection refused, timeout, DNS).
\* urlopen follows 3xx redirects itself, so a response here is the final one.
Http(status, body) == [kind |-> "http", status |-> status, body |-> body]

TransportFailure == [kind |-> "transport", status |-> 0, body |-> << >>]

NoResponse == [kind |-> "none", status |-> 0, body |-> << >>]

Responses ==
    { Http(200, BODY_FULL), Http(200, BODY_NO_TYPE), Http(201, BODY_NO_TOKEN),
      Http(200, BODY_EMPTY_TOKEN), Http(200, BODY_TEXT), Http(200, BODY_JSON_STR),
      Http(400, BODY_ERR_JSON), Http(500, BODY_TEXT), TransportFailure }

(***************************************************************************)
(* State                                                                   *)
(***************************************************************************)

VARIABLES
    args,      \* httpie_args_parser.args, the parsed command-line options
    auths,     \* every get_auth call so far: its arguments and its result
    calls,     \* every __call__ so far: its frame and the outgoing request
    wire,      \* every token request sent to the token endpoint, in order
    stdout,    \* what was written to sys.stdout
    stderr     \* what was written to sys.stderr

vars == << args, auths, calls, wire, stdout, stderr >>

(***************************************************************************)
(* The plugin's code                                                       *)
(***************************************************************************)

\* A faulty variant of __init__: the check of client_secret is missing.
init_without_secret_check(client_id, client_secret, options) ==
    IF ~Truthy(client_id)
    THEN [raised |-> Exc("ValueError", "client_id is required."), self |-> NoSelf]
    ELSE IF ~Truthy(options.token_endpoint)
    THEN [raised |-> Exc("ValueError", "token_endpoint is required."), self |-> NoSelf]
    ELSE [raised |-> NoExc,
          self |-> [client_id |-> client_id,
                    client_secret |-> client_secret,
                    token_endpoint |-> options.token_endpoint,
                    token_request_type |-> options.token_request_type,
                    scope |-> options.scope,
                    print_token_response |-> options.print_token_response]]

\* OAuth2ClientCredentials.__init__: the exception raised (NoExc if none) and
\* the attributes of the object built.
__init__(client_id, client_secret, options) ==
    IF ~Truthy(client_id)
    THEN [raised |-> Exc("ValueError", "client_id is required."), self |-> NoSelf]
    ELSE IF ~Truthy(client_secret)
    THEN [raised |-> Exc("ValueError", "client_secret is required."), self |-> NoSelf]
    ELSE IF ~Truthy(options.token_endpoint)
    THEN [raised |-> Exc("ValueError", "token_endpoint is required."), self |-> NoSelf]
    ELSE [raised |-> NoExc,
          self |-> [client_id |-> client_id,
                    client_secret |-> client_secret,
                    token_endpoint |-> options.token_endpoint,
                    token_request_type |-> options.token_request_type,
                    scope |-> options.scope,
                    print_token_response |-> options.print_token_response]]

\* OAuth2ClientCredentialsPlugin.get_auth
get_auth(username, password, options) == __init__(username, password, options)

\* __get_token up to the call of urlopen: the exception raised, or the
\* Request that is handed to urlopen.
NoRequest == [url |-> None, method |-> "none", headers |-> << >>, data |-> None]

post_params(self) ==
    IF Truthy(self.scope)
    THEN << << S_grant_type, S_client_credentials >>, << S_scope, self.scope >> >>
    ELSE << << S_grant_type, S_client_credentials >> >>

\* A faulty variant of the else branch's parameters: client_id is stored
\* under client_secret too.
post_params_with_client_id_twice(self) ==
    post_params(self)
    \o << << S_client_id, self.client_id >>, << S_client_secret, self.client_id >> >>

post_params_with_credentials(self) ==
    post_params(self)
    \o << << S_client_id, self.client_id >>, << S_client_secret, self.client_secret >> >>

\* A faulty variant of the Basic credentials: the secret comes first.
basic_credentials_secret_first(self) ==
    S_Basic \o b64encode(self.client_secret \o << ":" >> \o self.client_id)

basic_credentials(self) ==
    S_Basic \o b64encode(self.client_id \o << ":" >> \o self.client_secret)

\* A faulty variant of token_request: the last else branch does not raise, so
\* an unknown type is sent like form.
token_request_unknown_as_form(self) ==
    IF self.token_request_type = "basic"
    THEN [raised |-> NoExc,
          req |-> [url |-> self.token_endpoint, method |-> "POST",
                   headers |-> << << S_ContentType, S_FormUrlencoded >>,
                                  << S_Authorization,
                                     S_Basic \o b64encode(self.client_id \o << ":" >>
                                                          \o self.client_secret) >> >>,
                   data |-> urlencode(post_params(self))]]
    ELSE IF self.token_request_type = "json"
    THEN [raised |-> NoExc,
          req |-> [url |-> self.token_endpoint, method |-> "POST",
                   headers |-> << << S_ContentType, S_ApplicationJson >> >>,
                   data |-> json_dumps(post_params(self)
                                       \o << << S_client_id, self.client_id >>,
                                             << S_client_secret, self.client_secret >> >>)]]
    ELSE [raised |-> NoExc,
          req |-> [url |-> self.token_endpoint, method |-> "POST",
                   headers |-> << << S_ContentType, S_FormUrlencoded >> >>,
                   data |-> urlencode(post_params(self)
                                      \o << << S_client_id, self.client_id >>,
                                            << S_client_secret, self.client_secret >> >>)]]

token_request(self) ==
    IF self.token_request_type = "basic"
    THEN [raised |-> NoExc,
          req |-> [url |-> self.token_endpoint, method |-> "POST",
                   headers |-> << << S_ContentType, S_FormUrlencoded >>,
                                  << S_Authorization, basic_credentials(self) >> >>,
                   data |-> urlencode(post_params(self))]]
    ELSE IF self.token_request_type = "form"
    THEN [raised |-> NoExc,
          req |-> [url |-> self.token_endpoint, method |-> "POST",
                   headers |-> << << S_ContentType, S_FormUrlencoded >> >>,
                   data |-> urlencode(post_params_with_credentials(self))]]
    ELSE IF self.token_request_type = "json"
    THEN [raised |-> NoExc,
          req |-> [url |-> self.token_endpoint, method |-> "POST",
                   headers |-> << << S_ContentType, S_ApplicationJson >> >>,
                   data |-> json_dumps(post_params_with_credentials(self))]]
    ELSE [raised |-> Exc("ValueError", "token-request-type is invalid value."),
          req |-> NoRequest]

\* urlopen, given what the endpoint answers: the exception it raises (URLError
\* when there is no response, HTTPError for a status outside 200..299), or the
\* body of the response it returns.
urlopen(response) ==
    IF response.kind = "transport"
    THEN [raised |-> Exc("URLError", ""), body |-> << >>]
    ELSE IF response.status >= 200 /\ response.status < 300
    THEN [raised |-> NoExc, body |-> response.body]
    ELSE [raised |-> HTTPErrorOf(response.status, response.body), body |-> << >>]

\* One write to sys.stdout or sys.stderr: which message, and what it shows.
Written(what, status, payload) == [what |-> what, status |-> status, payload |-> payload]

\* The except HTTPError block: with print_token_response the body is read
\* from the error (e.read() leaves nothing to read) and printed, parsed when
\* it is JSON, raw otherwise; then e is raised again.
except_HTTPError(self, e) ==
    IF self.print_token_response
    THEN LET res_body == e.fp
             parsed == json_loads(res_body)
         IN  [raised |-> [e EXCEPT !.fp = << >>],
              err |-> << Written("oauth2 error response", e.status, << >>),
                         IF parsed.ok
                         THEN Written("token_error_response", 0, parsed.value)
                         ELSE Written("error_response", 0, res_body) >>]
    ELSE [raised |-> e, err |-> << >>]

\* A faulty variant of get_token_resume: the except block returns an empty
\* dict instead of raising e again.
get_token_resume_swallowing(self, response) ==
    LET res == urlopen(response)
        res_body == json_loads(res.body)
    IN  IF res.raised.type = "HTTPError"
        THEN [raised |-> NoExc, value |-> [ok |-> TRUE, kind |-> "dict", value |-> << >>],
              out |-> << >>, err |-> << >>]
        ELSE IF res.raised.type # "none"
        THEN [raised |-> res.raised, value |-> NoJson, out |-> << >>, err |-> << >>]
        ELSE IF ~res_body.ok
        THEN [raised |-> Exc("JSONDecodeError", ""), value |-> NoJson,
              out |-> << >>, err |-> << >>]
        ELSE [raised |-> NoExc, value |-> res_body,
              out |-> IF self.print_token_response
                      THEN << Written("token_response", 0, res_body.value) >>
                      ELSE << >>,
              err |-> << >>]

\* __get_token from the call of urlopen on: the exception raised or the
\* parsed body returned, and what was written to stdout and stderr.
get_token_resume(self, response) ==
    LET res == urlopen(response)
        res_body == json_loads(res.body)
    IN  IF res.raised.type = "HTTPError"
        THEN LET h == except_HTTPError(self, res.raised)
             IN  [raised |-> h.raised, value |-> NoJson, out |-> << >>, err |-> h.err]
        ELSE IF res.raised.type # "none"
        THEN [raised |-> res.raised, value |-> NoJson, out |-> << >>, err |-> << >>]
        ELSE IF ~res_body.ok
        THEN [raised |-> Exc("JSONDecodeError", ""), value |-> NoJson,
              out |-> << >>, err |-> << >>]
        ELSE [raised |-> NoExc, value |-> res_body,
              out |-> IF self.print_token_response
                      THEN << Written("token_response", 0, res_body.value) >>
                      ELSE << >>,
              err |-> << >>]

\* A faulty variant of call_resume: token_type has no default.
call_resume_without_default(headers, got) ==
    IF got.raised.type # "none"
    THEN [raised |-> got.raised, headers |-> headers]
    ELSE IF got.value.kind # "dict"
    THEN [raised |-> Exc("AttributeError", "object has no attribute 'get'"),
          headers |-> headers]
    ELSE LET token_type == DictGet(got.value.value, S_token_type, << >>)
             token == DictGet(got.value.value, S_access_token, << >>)
         IN  [raised |-> NoExc,
              headers |-> DictSet(headers, S_Authorization,
                                  token_type \o << " " >> \o token)]

\* __call__ after __get_token: the exception that leaves __call__, or the
\* headers of the request it returns.
call_resume(headers, got) ==
    IF got.raised.type # "none"
    THEN [raised |-> got.raised, headers |-> headers]
    ELSE IF got.value.kind # "dict"
    THEN [raised |-> Exc("AttributeError", "object has no attribute 'get'"),
          headers |-> headers]
    ELSE LET token_type == DictGet(got.value.value, S_token_type, S_Bearer)
             token == DictGet(got.value.value, S_access_token, << >>)
         IN  [raised |-> NoExc,
              headers |-> DictSet(headers, S_Authorization,
                                  token_type \o << " " >> \o token)]

(***************************************************************************)
(* Operations                                                              *)
(***************************************************************************)

\* A faulty variant of self_of: the attributes are shared by all objects (set
\* on the class), so every method sees those of the authenticator built last.
self_of_latest(a) == auths[Len(auths)].result.self

\* The object a bound method runs on: the attributes __init__ gave to the
\* a-th authenticator.
self_of(a) == auths[a].result.self

Tagged(c, written) == [i \in 1..Len(written) |-> [call |-> c] @@ written[i]]

\* HTTPie calls get_auth(username, password); the result is kept whether
\* __init__ returned or raised.
GetAuth(username, password) ==
    /\ auths' = Append(auths, [username |-> username, password |-> password,
                               options |-> args,
                               result |-> get_auth(username, password, args)])
    /\ UNCHANGED << args, calls, wire, stdout, stderr >>

\* A faulty variant of Call: a token an earlier __call__ on the same
\* authenticator obtained is reused, and no token request is sent.
CallReusingToken(a, headers) ==
    /\ a \in 1..Len(auths)
    /\ auths[a].result.raised.type = "none"
    /\ LET built == token_request(auths[a].result.self)
           frame == [auth |-> a, pc |-> "urlopen", headers0 |-> headers,
                     headers |-> headers, raised |-> NoExc, response |-> NoResponse]
           earlier == { c \in 1..Len(calls) : calls[c].auth = a /\ calls[c].pc = "returned" }
       IN  IF built.raised.type # "none"
           THEN /\ calls' = Append(calls, [frame EXCEPT !.pc = "raised",
                                                        !.raised = built.raised])
                /\ wire' = wire
           ELSE IF earlier # { }
           THEN /\ calls' = Append(calls,
                                   [frame EXCEPT !.pc = "returned",
                                                 !.headers =
                                                     calls[CHOOSE c \in earlier : TRUE].headers])
                /\ wire' = wire
           ELSE /\ calls' = Append(calls, frame)
                /\ wire' = Append(wire, [call |-> Len(calls) + 1, req |-> built.req,
                                         response |-> NoResponse])
    /\ UNCHANGED << args, auths, stdout, stderr >>

\* __call__(request) on the a-th authenticator, up to the point where urlopen
\* has sent the token request and waits for the answer.  A ValueError from
\* building the request leaves __call__ at once.
Call(a, headers) ==
    /\ a \in 1..Len(auths)
    /\ auths[a].result.raised.type = "none"
    /\ LET built == token_request(self_of(a))
           frame == [auth |-> a, pc |-> "urlopen", headers0 |-> headers,
                     headers |-> headers, raised |-> NoExc, response |-> NoResponse]
       IN  IF built.raised.type # "none"
           THEN /\ calls' = Append(calls, [frame EXCEPT !.pc = "raised",
                                                        !.raised = built.raised])
                /\ wire' = wire
           ELSE /\ calls' = Append(calls, frame)
                /\ wire' = Append(wire, [call |-> Len(calls) + 1, req |-> built.req,
                                         response |-> NoResponse])
    /\ UNCHANGED << args, auths, stdout, stderr >>

\* The token endpoint answers the request of the c-th __call__ (or the
\* connection fails), and __call__ runs to its end.
Receive(c, response) ==
    /\ c \in 1..Len(calls)
    /\ calls[c].pc = "urlopen"
    /\ LET got == get_token_resume(self_of(calls[c].auth), response)
           done == call_resume(calls[c].headers, got)
       IN  /\ calls' = [calls EXCEPT ![c] =
                           [@ EXCEPT !.pc = IF done.raised.type = "none"
                                            THEN "returned" ELSE "raised",
                                     !.headers = done.headers,
                                     !.raised = done.raised,
                                     !.response = response]]
           /\ stdout' = stdout \o Tagged(c, got.out)
           /\ stderr' = stderr \o Tagged(c, got.err)
    /\ wire' = [w \in 1..Len(wire) |->
                    IF wire[w].call = c THEN [wire[w] EXCEPT !.response = response]
                    ELSE wire[w]]
    /\ UNCHANGED << args, auths >>

(***************************************************************************)
(* One run of HTTPie: one command line, one get_auth, one request          *)
(***************************************************************************)

Init ==
    /\ args \in ArgsSet
    /\ auths = << >>
    /\ calls = << >>
    /\ wire = << >>
    /\ stdout = << >>
    /\ stderr = << >>

GetAuthOnce ==
    /\ auths = << >>
    /\ \E username \in Usernames, password \in Passwords : GetAuth(username, password)

CallOnce ==
    /\ calls = << >>
    /\ \E headers \in OutgoingHeaders : Call(1, headers)

ReceiveOnce == \E response \in Responses : Receive(1, response)

Next == GetAuthOnce \/ CallOnce \/ ReceiveOnce

Spec == Init /\ [][Next]_vars

(***************************************************************************)
(* A host that builds several authenticators and authorizes several        *)
(* requests at once                                                        *)
(***************************************************************************)

MaxAuths == 2

MaxCalls == 2

ConcurrentArgs ==
    { [token_endpoint |-> URL1, token_request_type |-> "basic", scope |-> None,
       print_token_response |-> FALSE],
      [token_endpoint |-> URL1, token_request_type |-> "json", scope |-> SCOPE1,
       print_token_response |-> TRUE],
      [token_endpoint |-> URL1, token_request_type |-> "xml", scope |-> None,
       print_token_response |-> FALSE] }

ConcurrentCredentials == { << ID1, SECRET1 >>, << ID2, SECRET2 >> }

ConcurrentResponses ==
    { Http(200, BODY_FULL), Http(200, BODY_NO_TYPE), Http(400, BODY_ERR_JSON) }

InitConcurrent ==
    /\ args \in ConcurrentArgs
    /\ auths = << >>
    /\ calls = << >>
    /\ wire = << >>
    /\ stdout = << >>
    /\ stderr = << >>

GetAuthSome ==
    /\ Len(auths) < MaxAuths
    /\ \E cred \in ConcurrentCredentials : GetAuth(cred[1], cred[2])

CallSome ==
    /\ Len(calls) < MaxCalls
    /\ \E a \in 1..Len(auths) : Call(a, << H_Accept >>)

ReceiveSome ==
    \E c \in 1..Len(calls), response \in ConcurrentResponses : Receive(c, response)

NextConcurrent == GetAuthSome \/ CallSome \/ ReceiveSome

SpecConcurrent == InitConcurrent /\ [][NextConcurrent]_vars

(***************************************************************************)
(* Decoders the properties read the token request with: what a token       *)
(* endpoint does with the bytes it receives                                *)
(***************************************************************************)

B64Table == [c \in Range(B64Alphabet) |-> (CHOOSE i \in 1..64 : B64Alphabet[i] = c) - 1]

B64Value(c) == B64Table[c]

\* The inverse of base64: four characters give three bytes, "=" pads.
RECURSIVE b64decode(_)
b64decode(t) ==
    IF Len(t) < 4 THEN << >>
    ELSE LET a == B64Value(t[1])
             b == B64Value(t[2])
             rest == b64decode(SubSeq(t, 5, Len(t)))
         IN  IF t[3] = "=" THEN << Chr(a * 4 + (b \div 16)) >>
             ELSE IF t[4] = "="
             THEN << Chr(a * 4 + (b \div 16)),
                     Chr((b % 16) * 16 + (B64Value(t[3]) \div 4)) >>
             ELSE << Chr(a * 4 + (b \div 16)),
                     Chr((b % 16) * 16 + (B64Value(t[3]) \div 4)),
                     Chr((B64Value(t[3]) % 4) * 64 + B64Value(t[4])) >> \o rest

HexTable == [c \in Range(HexDigits) |-> (CHOOSE i \in 1..16 : HexDigits[i] = c) - 1]

HexValue(c) == HexTable[c]

\* Percent-decoding of a form field: "+" is a space, %XX is the byte XX.
RECURSIVE unquote_plus(_)
unquote_plus(s) ==
    IF Len(s) = 0 THEN << >>
    ELSE IF s[1] = "+" THEN << " " >> \o unquote_plus(Tail(s))
    ELSE IF s[1] = "%" /\ Len(s) >= 3
    THEN << Chr(HexValue(s[2]) * 16 + HexValue(s[3])) >> \o unquote_plus(SubSeq(s, 4, Len(s)))
    ELSE << s[1] >> \o unquote_plus(Tail(s))

\* The fields of s between the separators c.
RECURSIVE SplitAt(_, _, _)
SplitAt(s, c, cur) ==
    IF Len(s) = 0 THEN << cur >>
    ELSE IF s[1] = c THEN << cur >> \o SplitAt(Tail(s), c, << >>)
    ELSE SplitAt(Tail(s), c, Append(cur, s[1]))

FirstIndex(s, c) ==
    IF c \in Range(s) THEN CHOOSE i \in 1..Len(s) : s[i] = c /\ \A j \in 1..(i - 1) : s[j] # c
    ELSE Len(s) + 1

\* An application/x-www-form-urlencoded body as its <<name, value>> pairs.
FormDecode(s) ==
    LET items == SplitAt(s, "&", << >>)
    IN  [i \in 1..Len(items) |->
             LET eq == FirstIndex(items[i], "=")
             IN  << unquote_plus(SubSeq(items[i], 1, eq - 1)),
                    unquote_plus(SubSeq(items[i], eq + 1, Len(items[i]))) >>]

\* The keys of a decoded body.
DictKeys(d) == { d[i][1] : i \in 1..Len(d) }

HasPrefix(s, prefix) == Len(s) >= Len(prefix) /\ SubSeq(s, 1, Len(prefix)) = prefix

DropPrefix(s, prefix) == SubSeq(s, Len(prefix) + 1, Len(s))

\* The authenticator the w-th token request was sent for, and the token
\* requests sent for the c-th call.
SenderOf(w) == auths[calls[wire[w].call].auth].result.self

RequestsOf(c) == { w \in 1..Len(wire) : wire[w].call = c }

Done(c) == calls[c].pc \in { "returned", "raised" }

(***************************************************************************)
(* Properties                                                              *)
(***************************************************************************)

ExpectedBasicParams(self) ==
    IF Truthy(self.scope)
    THEN { << S_grant_type, S_client_credentials >>, << S_scope, self.scope >> }
    ELSE { << S_grant_type, S_client_credentials >> }

ExpectedBodyParams(self) ==
    ExpectedBasicParams(self)
    \cup { << S_client_id, self.client_id >>, << S_client_secret, self.client_secret >> }

\* C1: whenever get_auth is given an empty (or missing) client_id or
\* client_secret, or the options hold an empty (or missing) token_endpoint,
\* __init__ raises the configuration error (ValueError), no __call__ ever runs
\* on that authenticator and no token request is sent for it.
C1_EmptyInputIsConfigurationError ==
    \A i \in 1..Len(auths) :
        (\/ ~Truthy(auths[i].username)
         \/ ~Truthy(auths[i].password)
         \/ ~Truthy(auths[i].options.token_endpoint))
        => /\ auths[i].result.raised.type = "ValueError"
           /\ \A c \in 1..Len(calls) : calls[c].auth # i
           /\ \A w \in 1..Len(wire) : calls[wire[w].call].auth # i
           /\ Len(auths) = 1 => wire = << >>

C1_Witness ==
    \E i \in 1..Len(auths) :
        /\ auths[i].username = ID1
        /\ auths[i].password = << >>
        /\ auths[i].options.token_endpoint = URL1
        /\ auths[i].result.raised.type = "ValueError"

\* C2: when the token request type is none of basic, form, json, __call__
\* ends with the configuration error (ValueError) without a token request
\* being sent, and the outgoing request's headers are as they were.
C2_UnknownRequestTypeIsConfigurationError ==
    \A c \in 1..Len(calls) :
        auths[calls[c].auth].result.self.token_request_type \notin { "basic", "form", "json" }
        => /\ calls[c].pc = "raised"
           /\ calls[c].raised.type = "ValueError"
           /\ RequestsOf(c) = { }
           /\ calls[c].headers = calls[c].headers0
           /\ calls[c].response = NoResponse

C2_Witness ==
    \E c \in 1..Len(calls) :
        /\ auths[calls[c].auth].result.self.token_request_type = "xml"
        /\ auths[calls[c].auth].result.self.client_id = ID2
        /\ calls[c].pc = "raised"
        /\ << S_Authorization, OLD_AUTH >> \in Range(calls[c].headers)

\* C3: a token request sent in basic mode has the Authorization header
\* "Basic " followed by the base64 of client_id ":" client_secret, the
\* Content-Type application/x-www-form-urlencoded, and a body that is the
\* url-encoded form of grant_type=client_credentials plus scope exactly when
\* scope is non-empty: the body has no client_id or client_secret field and
\* is the same whatever the credentials are.
C3_BasicModeRequest ==
    \A w \in 1..Len(wire) :
        SenderOf(w).token_request_type = "basic"
        => LET req == wire[w].req
               auth == DictGet(req.headers, S_Authorization, << >>)
               fields == FormDecode(req.data)
           IN  /\ HasPrefix(auth, S_Basic)
               /\ b64decode(DropPrefix(auth, S_Basic))
                      = SenderOf(w).client_id \o << ":" >> \o SenderOf(w).client_secret
               /\ DictGet(req.headers, S_ContentType, << >>) = S_FormUrlencoded
               /\ Len(req.headers) = 2
               /\ Range(fields) = ExpectedBasicParams(SenderOf(w))
               /\ Len(fields) = Cardinality(ExpectedBasicParams(SenderOf(w)))
               /\ DictKeys(fields) \cap { S_client_id, S_client_secret } = { }
               /\ \A id \in { ID1, ID2 }, secret \in { SECRET1, SECRET2 } :
                      token_request([SenderOf(w) EXCEPT !.client_id = id,
                                                        !.client_secret = secret]).req.data
                          = req.data

C3_Witness ==
    \E w \in 1..Len(wire) :
        /\ SenderOf(w).token_request_type = "basic"
        /\ SenderOf(w).client_id = ID2
        /\ SenderOf(w).client_secret = SECRET2
        /\ SenderOf(w).scope = SCOPE1
        /\ wire[w].req.data # << >>

\* The decoded body of a token request: its <<name, value>> pairs.
DecodedBody(mode, data) ==
    IF mode = "json" THEN json_loads(data).value ELSE FormDecode(data)

\* C4: a token request sent in form or json mode has a body that decodes to
\* exactly grant_type=client_credentials, client_id, client_secret, and scope
\* if and only if scope is non-empty; the form body and the json body of the
\* same authenticator decode to the same pairs; Content-Type is
\* application/x-www-form-urlencoded for form and application/json for json,
\* and the request has no Authorization header.
C4_FormAndJsonModeRequest ==
    \A w \in 1..Len(wire) :
        SenderOf(w).token_request_type \in { "form", "json" }
        => LET self == SenderOf(w)
               req == wire[w].req
               fields == DecodedBody(self.token_request_type, req.data)
               asForm == token_request([self EXCEPT !.token_request_type = "form"]).req
               asJson == token_request([self EXCEPT !.token_request_type = "json"]).req
           IN  /\ self.token_request_type = "json" => json_loads(req.data).kind = "dict"
               /\ Range(fields) = ExpectedBodyParams(self)
               /\ Len(fields) = Cardinality(ExpectedBodyParams(self))
               /\ (S_scope \in DictKeys(fields)) <=> Truthy(self.scope)
               /\ Range(FormDecode(asForm.data)) = Range(json_loads(asJson.data).value)
               /\ DictGet(req.headers, S_ContentType, << >>)
                      = IF self.token_request_type = "form"
                        THEN S_FormUrlencoded ELSE S_ApplicationJson
               /\ ~DictHas(req.headers, S_Authorization)
               /\ Len(req.headers) = 1

C4_Witness ==
    \E w \in 1..Len(wire) :
        /\ SenderOf(w).token_request_type = "json"
        /\ SenderOf(w).client_secret = SECRET2
        /\ SenderOf(w).scope = << >>
        /\ DictGet(json_loads(wire[w].req.data).value, S_client_secret, << >>) = SECRET2

Is2xx(response) ==
    response.kind = "http" /\ response.status >= 200 /\ response.status <= 299

AuthorizationValues(headers) ==
    { headers[i][2] : i \in { j \in 1..Len(headers) : headers[j][1] = S_Authorization } }

OtherHeaders(headers) == { h \in Range(headers) : h[1] # S_Authorization }

\* The value of a key of a parsed JSON object, or a default when it is absent.
ValueOr(obj, key, default) ==
    IF \E p \in Range(obj) : p[1] = key
    THEN (CHOOSE p \in Range(obj) : p[1] = key)[2]
    ELSE default

\* C5: after a 2xx token response whose body is a JSON object, __call__
\* returns and the outgoing request has exactly one Authorization header,
\* token_type " " access_token of that response, with token_type "Bearer" when
\* absent and access_token empty when absent; a header set before is replaced
\* and the other headers are kept.
C5_AuthorizationHeaderFromResponse ==
    \A c \in 1..Len(calls) :
        (Is2xx(calls[c].response) /\ json_loads(calls[c].response.body).kind = "dict")
        => LET obj == json_loads(calls[c].response.body).value
               expected == ValueOr(obj, S_token_type, S_Bearer) \o << " " >>
                               \o ValueOr(obj, S_access_token, << >>)
           IN  /\ calls[c].pc = "returned"
               /\ calls[c].raised = NoExc
               /\ AuthorizationValues(calls[c].headers) = { expected }
               /\ Cardinality({ j \in 1..Len(calls[c].headers) :
                                    calls[c].headers[j][1] = S_Authorization }) = 1
               /\ OtherHeaders(calls[c].headers) = OtherHeaders(calls[c].headers0)
               /\ calls[c].response.body = BODY_FULL
                      => expected = S_Bearer \o << " ", "a", "b", "c", "1", "2", "3" >>
               /\ calls[c].response.body = BODY_NO_TYPE
                      => expected = S_Bearer \o << " ", "x", "y", "z" >>
               /\ calls[c].response.body = BODY_NO_TOKEN
                      => expected = << "M", "A", "C", " " >>
               /\ calls[c].response.body = BODY_EMPTY_TOKEN
                      => expected = S_Bearer \o << " " >>

C5_Witness ==
    \E c \in 1..Len(calls) :
        /\ calls[c].response = Http(200, BODY_NO_TYPE)
        /\ << S_Authorization, OLD_AUTH >> \in Range(calls[c].headers0)
        /\ calls[c].pc = "returned"
        /\ AuthorizationValues(calls[c].headers) = { S_Bearer \o << " ", "x", "y", "z" >> }

\* The body an error gives its handler: the parsed JSON when the text is
\* JSON, the raw text otherwise.
CarriedBody(text) ==
    IF json_loads(text).ok
    THEN [json |-> TRUE, value |-> json_loads(text).value]
    ELSE [json |-> FALSE, value |-> text]

\* C6: for every token response with a status outside 200..299, __call__
\* ends with an error that carries the response's status code and its body
\* (the parsed JSON when the body is JSON, the raw text otherwise).
C6_ErrorCarriesStatusAndBody ==
    \A c \in 1..Len(calls) :
        (calls[c].response.kind = "http" /\ ~Is2xx(calls[c].response))
        => /\ calls[c].pc = "raised"
           /\ calls[c].raised.type = "HTTPError"
           /\ calls[c].raised.status = calls[c].response.status
           /\ CarriedBody(calls[c].raised.fp) = CarriedBody(calls[c].response.body)

\* What the caller of __call__ sees of the c-th call when it has ended.
Outcome(pc, headers, raised) == [pc |-> pc, headers |-> headers, raised |-> raised]

\* The outcome __call__ has for the same authenticator, outgoing request and
\* token response, with print_token_response the other way round.
OutcomeWithLoggingFlipped(c) ==
    LET self == auths[calls[c].auth].result.self
        flipped == [self EXCEPT !.print_token_response = ~self.print_token_response]
        done == call_resume(calls[c].headers0, get_token_resume(flipped, calls[c].response))
    IN  Outcome(IF done.raised.type = "none" THEN "returned" ELSE "raised",
                done.headers, done.raised)

\* C7: print_token_response changes nothing the caller sees: the same
\* Authorization header on success, the same error (type, status code and the
\* body still to be read from it) on failure.
C7_LoggingIsObservational ==
    \A c \in 1..Len(calls) :
        (Done(c) /\ calls[c].response # NoResponse)
        => Outcome(calls[c].pc, calls[c].headers, calls[c].raised)
               = OutcomeWithLoggingFlipped(c)

\* C9: the Authorization header of the outgoing request is written only
\* after the token request was sent and answered with a 2xx response whose
\* body parsed; while the answer is awaited the headers are untouched; a
\* configuration error, a transport failure, a status outside 200..299 and a
\* 2xx body that is not JSON each end __call__ with an error and with the
\* outgoing request's headers as they were.
C9_NoPartialSuccess ==
    \A c \in 1..Len(calls) :
        LET r == calls[c].response
            failed == \/ auths[calls[c].auth].result.self.token_request_type
                             \notin { "basic", "form", "json" }
                      \/ r.kind = "transport"
                      \/ r.kind = "http" /\ ~Is2xx(r)
                      \/ Is2xx(r) /\ ~json_loads(r.body).ok
        IN  /\ calls[c].pc = "urlopen"
                   => calls[c].headers = calls[c].headers0 /\ RequestsOf(c) # { }
            /\ failed => /\ calls[c].pc = "raised"
                         /\ calls[c].raised.type # "none"
                         /\ calls[c].headers = calls[c].headers0
            /\ calls[c].pc = "raised"
                   => calls[c].raised.type # "none" /\ calls[c].headers = calls[c].headers0
            /\ calls[c].headers # calls[c].headers0
                   => /\ calls[c].pc = "returned"
                      /\ RequestsOf(c) # { }
                      /\ Is2xx(r) /\ json_loads(r.body).ok
            /\ calls[c].pc = "returned"
                   => /\ calls[c].raised = NoExc
                      /\ AuthorizationValues(calls[c].headers) # { }
                      /\ calls[c].headers # calls[c].headers0

C9_Witness ==
    \E c \in 1..Len(calls) :
        /\ calls[c].response = Http(200, BODY_TEXT)
        /\ calls[c].pc = "raised"
        /\ calls[c].raised.type = "JSONDecodeError"
        /\ calls[c].headers = << H_Accept, << S_Authorization, OLD_AUTH >> >>

ValidType(c) ==
    auths[calls[c].auth].result.self.token_request_type \in { "basic", "form", "json" }

\* C8: every __call__ whose request type is valid has sent exactly one token
\* request, whether it is still waiting, has returned or has failed, and the
\* others none: after n such calls, on the same or on different
\* authenticators, exactly n token requests are on the wire.
C8_OneTokenRequestPerCall ==
    /\ \A c \in 1..Len(calls) :
           Cardinality(RequestsOf(c)) = IF ValidType(c) THEN 1 ELSE 0
    /\ \A w \in 1..Len(wire) : wire[w].call \in 1..Len(calls)
    /\ Len(wire) = Cardinality({ c \in 1..Len(calls) : ValidType(c) })

C8_Witness ==
    /\ Len(calls) = 2
    /\ calls[1].auth = calls[2].auth
    /\ calls[1].pc = "returned"
    /\ calls[2].pc = "raised"
    /\ calls[2].raised.type = "HTTPError"
    /\ Len(wire) = 2

\* The credentials a token request carries, read back from its Authorization
\* header (basic) or from its body (form, json).
RequestCredentials(mode, req) ==
    IF mode = "basic"
    THEN LET t == b64decode(DropPrefix(DictGet(req.headers, S_Authorization, << >>), S_Basic))
             colon == FirstIndex(t, ":")
         IN  << SubSeq(t, 1, colon - 1), SubSeq(t, colon + 1, Len(t)) >>
    ELSE LET fields == DecodedBody(mode, req.data)
         IN  << DictGet(fields, S_client_id, << >>), DictGet(fields, S_client_secret, << >>) >>

\* C10: under every interleaving of calls, each call's token request carries
\* the credentials and options of its own authenticator, the answer a call
\* works with is the answer to its own token request, its outcome (the
\* Authorization header, or the error) and what it prints come from that
\* answer alone, and until its own answer arrives its outgoing request is
\* untouched.
C10_CallsDoNotInterfere ==
    \A c \in 1..Len(calls) :
        LET self == auths[calls[c].auth].result.self
            r == calls[c].response
            parsed == json_loads(r.body).value
        IN  /\ \A w \in RequestsOf(c) :
                   /\ RequestCredentials(self.token_request_type, wire[w].req)
                          = << self.client_id, self.client_secret >>
                   /\ wire[w].req = token_request(self).req
                   /\ wire[w].response = r
            /\ calls[c].pc = "urlopen" => r = NoResponse /\ calls[c].headers = calls[c].headers0
            /\ calls[c].pc = "returned"
                   => /\ Is2xx(r)
                      /\ AuthorizationValues(calls[c].headers)
                             = { ValueOr(parsed, S_token_type, S_Bearer) \o << " " >>
                                     \o ValueOr(parsed, S_access_token, << >>) }
            /\ (calls[c].pc = "raised" /\ ValidType(c))
                   => /\ ~Is2xx(r)
                      /\ calls[c].raised.status = r.status
            /\ \A i \in 1..Len(stdout) :
                   stdout[i].call = c => stdout[i].payload = parsed
            /\ \A i \in 1..Len(stderr) :
                   stderr[i].call = c
                   => /\ calls[c].pc = "raised"
                      /\ stderr[i].what = "oauth2 error response" => stderr[i].status = r.status
                      /\ stderr[i].what = "token_error_response"
                             => stderr[i].payload = parsed

C10_Witness ==
    /\ Len(calls) = 2
    /\ calls[1].auth # calls[2].auth
    /\ auths[calls[1].auth].result.self.client_id # auths[calls[2].auth].result.self.client_id
    /\ calls[1].pc = "urlopen"
    /\ calls[2].pc = "returned"
    /\ Len(wire) = 2

====
